---- MODULE Spec2Model ----
(***************************************************************************)
(* A model of @rediskit/cache (src/src/cache.ts): the Cache facade over an *)
(* ioredis client.  The store is the remote key-value store reached by the *)
(* client; every `await this.redis.<command>` of the facade is one atomic  *)
(* step at the store, and concurrent callers interleave between awaits.    *)
(***************************************************************************)
EXTENDS Integers, Sequences, FiniteSets, TLC

\* ---------------------------------------------------------------- bounds

\* Largest TTL, in seconds, a caller passes (and the cap of the age in hist).
MaxTTL == 2

\* The callers (asynchronous tasks) that share one Cache instance.
Procs == {1, 2}

\* The keys of the store: the callers work on CallKey; OtherKey holds an
\* entry that an earlier session left and no call of the model names.
CallKey == "k1"

OtherKey == "k2"

Keys == {CallKey, OtherKey}

\* ---------------------------------------------------- Serializable values
\* cache.ts:5  string | number | boolean | Record | Array | null.
\* A value is a record tagged by its type t, with the payload in a field
\* of its own per type; text is a sequence of one-character strings.

Str(s) == [t |-> "str", s |-> s]

Num(n) == [t |-> "num", n |-> n]

Bool(b) == [t |-> "bool", b |-> b]

\* JavaScript null: the Serializable null and the "absent" result of get.
Null == [t |-> "null"]

Arr(items) == [t |-> "arr", items |-> items]

\* An object with its (key, value) pairs in insertion order.
Obj(pairs) == [t |-> "obj", pairs |-> pairs]

\* The missing optional argument (ttl?, fallback?, originalError?).
Undefined == [t |-> "undefined"]

Digits == <<"0", "1", "2", "3", "4", "5", "6", "7", "8", "9">>

IsDigit(c) == \E i \in 1..10 : Digits[i] = c

DigitVal(c) == (CHOOSE i \in 1..10 : Digits[i] = c) - 1

RECURSIVE NatToChars(_)
NatToChars(n) ==
    IF n < 10 THEN <<Digits[n + 1]>>
    ELSE NatToChars(n \div 10) \o <<Digits[(n % 10) + 1]>>

\* String(n) of an integer.
NumberToString(n) == IF n < 0 THEN <<"-">> \o NatToChars(-n) ELSE NatToChars(n)

BoolToString(b) == IF b THEN <<"t", "r", "u", "e">> ELSE <<"f", "a", "l", "s", "e">>

Quote(s) == <<"\"">> \o s \o <<"\"">>

RECURSIVE JSONStringify(_)
RECURSIVE JoinItems(_)
RECURSIVE JoinPairs(_)
JoinItems(items) ==
    IF items = <<>> THEN <<>>
    ELSE IF Len(items) = 1 THEN JSONStringify(items[1])
    ELSE JSONStringify(items[1]) \o <<",">> \o JoinItems(Tail(items))

JoinPairs(pairs) ==
    IF pairs = <<>> THEN <<>>
    ELSE LET one == Quote(pairs[1][1]) \o <<":">> \o JSONStringify(pairs[1][2])
         IN  IF Len(pairs) = 1 THEN one
             ELSE one \o <<",">> \o JoinPairs(Tail(pairs))

\* JSON.stringify on the values of the model (strings hold no character
\* that needs an escape).
JSONStringify(data) ==
    CASE data.t = "null" -> <<"n", "u", "l", "l">>
      [] data.t = "bool" -> BoolToString(data.b)
      [] data.t = "num"  -> NumberToString(data.n)
      [] data.t = "str"  -> Quote(data.s)
      [] data.t = "arr"  -> <<"[">> \o JoinItems(data.items) \o <<"]">>
      [] data.t = "obj"  -> <<"{">> \o JoinPairs(data.pairs) \o <<"}">>

\* String(data) of a primitive.
StringOf(data) ==
    CASE data.t = "str"  -> data.s
      [] data.t = "num"  -> NumberToString(data.n)
      [] data.t = "bool" -> BoolToString(data.b)

\* cache.ts:175-185  Cache.serialize: primitives as String(data), the rest
\* (objects, arrays, null) as JSON text.
serialize(data) ==
    IF data.t \in {"str", "num", "bool"} THEN StringOf(data)
    ELSE JSONStringify(data)

\* ------------------------------------------------------------ JSON.parse
\* A recursive-descent reader of JSON text over the model's alphabet:
\* integers, strings without escapes, true/false/null, arrays, objects.

Fail == [ok |-> FALSE, val |-> Null, pos |-> 0]

Ok(val, pos) == [ok |-> TRUE, val |-> val, pos |-> pos]

RECURSIVE SkipWs(_, _)
SkipWs(s, i) == IF i <= Len(s) /\ s[i] = " " THEN SkipWs(s, i + 1) ELSE i

HasWord(s, i, w) ==
    /\ i + Len(w) - 1 <= Len(s)
    /\ SubSeq(s, i, i + Len(w) - 1) = w

RECURSIVE ScanDigits(_, _, _)
ScanDigits(s, i, acc) ==
    IF i <= Len(s) /\ IsDigit(s[i])
    THEN ScanDigits(s, i + 1, acc * 10 + DigitVal(s[i]))
    ELSE [n |-> acc, pos |-> i]

\* The integer part of a JSON number: 0, or a nonzero digit and digits.
ParseNat(s, i) ==
    IF i > Len(s) \/ ~IsDigit(s[i]) THEN Fail
    ELSE IF s[i] = "0" THEN Ok(Num(0), i + 1)
    ELSE LET r == ScanDigits(s, i, 0) IN Ok(Num(r.n), r.pos)

ParseNumber(s, i) ==
    IF s[i] = "-"
    THEN LET r == ParseNat(s, i + 1)
         IN  IF r.ok THEN Ok(Num(0 - r.val.n), r.pos) ELSE Fail
    ELSE ParseNat(s, i)

\* The index of the closing quote at or after i, 0 if there is none.
RECURSIVE ScanString(_, _)
ScanString(s, i) ==
    IF i > Len(s) THEN 0
    ELSE IF s[i] = "\"" THEN i
    ELSE ScanString(s, i + 1)

ParseString(s, i) ==
    LET j == ScanString(s, i + 1)
    IN  IF j = 0 THEN Fail ELSE Ok(Str(SubSeq(s, i + 1, j - 1)), j + 1)

RECURSIVE ParseValue(_, _)
RECURSIVE ParseElements(_, _, _)
RECURSIVE ParseMembers(_, _, _)
ParseElements(s, i, acc) ==
    LET r == ParseValue(s, i)
        j == SkipWs(s, r.pos)
    IN  IF ~r.ok \/ j > Len(s) THEN Fail
        ELSE IF s[j] = "," THEN ParseElements(s, SkipWs(s, j + 1), Append(acc, r.val))
        ELSE IF s[j] = "]" THEN Ok(Arr(Append(acc, r.val)), j + 1)
        ELSE Fail

ParseArray(s, i) ==
    LET j == SkipWs(s, i + 1)
    IN  IF j <= Len(s) /\ s[j] = "]" THEN Ok(Arr(<<>>), j + 1)
        ELSE ParseElements(s, j, <<>>)

ParseMembers(s, i, acc) ==
    LET k == IF i <= Len(s) /\ s[i] = "\"" THEN ParseString(s, i) ELSE Fail
        c == SkipWs(s, k.pos)
        r == ParseValue(s, SkipWs(s, c + 1))
        j == SkipWs(s, r.pos)
    IN  IF ~k.ok \/ c > Len(s) THEN Fail
        ELSE IF s[c] # ":" THEN Fail
        ELSE IF ~r.ok \/ j > Len(s) THEN Fail
        ELSE IF s[j] = "," THEN ParseMembers(s, SkipWs(s, j + 1), Append(acc, <<k.val.s, r.val>>))
        ELSE IF s[j] = "}" THEN Ok(Obj(Append(acc, <<k.val.s, r.val>>)), j + 1)
        ELSE Fail

ParseObject(s, i) ==
    LET j == SkipWs(s, i + 1)
    IN  IF j <= Len(s) /\ s[j] = "}" THEN Ok(Obj(<<>>), j + 1)
        ELSE ParseMembers(s, j, <<>>)

ParseValue(s, i) ==
    IF i > Len(s) THEN Fail
    ELSE CASE s[i] = "n" ->
                IF HasWord(s, i, <<"n", "u", "l", "l">>) THEN Ok(Null, i + 4) ELSE Fail
           [] s[i] = "t" ->
                IF HasWord(s, i, <<"t", "r", "u", "e">>) THEN Ok(Bool(TRUE), i + 4) ELSE Fail
           [] s[i] = "f" ->
                IF HasWord(s, i, <<"f", "a", "l", "s", "e">>) THEN Ok(Bool(FALSE), i + 5) ELSE Fail
           [] s[i] = "\"" -> ParseString(s, i)
           [] s[i] = "[" -> ParseArray(s, i)
           [] s[i] = "{" -> ParseObject(s, i)
           [] s[i] = "-" \/ IsDigit(s[i]) -> ParseNumber(s, i)
           [] OTHER -> Fail

\* JSON.parse: ok with the value read, or not ok (a SyntaxError) when the
\* text is not one JSON value.
JSONParse(s) ==
    LET r == ParseValue(s, SkipWs(s, 1))
    IN  IF r.ok /\ SkipWs(s, r.pos) = Len(s) + 1 THEN r ELSE Fail

\* cache.ts:192-198  Cache.parse: the JSON value, or the raw text when
\* JSON.parse throws.
parse(data) ==
    LET r == JSONParse(data)
    IN  IF r.ok THEN r.val ELSE Str(data)

\* ------------------------------------------------------- error wrapping

\* An Error the ioredis client rejects a command with.
ClientError(m) == [t |-> "Error", message |-> m, origin |-> "client"]

\* new Error(message) built inside the facade.
NewError(m) == [t |-> "Error", message |-> m, origin |-> "facade"]

ConnectionLost == ClientError(<<"Connection is closed.">>)

\* The store's reply to SETEX with a TTL that is not positive.
InvalidExpire == ClientError(<<"ERR invalid expire time in 'setex' command">>)

\* The errors a command may fail with at any time.
ClientErrors == {ConnectionLost}

\* `Cache ${operation} operation failed: ${message}`; a message is the
\* sequence of the pieces it is assembled from.
Format(operation, message) == <<"Cache ", operation, " operation failed: ">> \o message

\* unnamed/part_001:15-26  class CacheError: super(`Cache ... failed: ...`)
\* formats the message it is given once more; originalError || new Error.
CacheError(operation, message, originalError) ==
    [t |-> "CacheError",
     operation |-> operation,
     message |-> Format(operation, message),
     originalError |-> IF originalError # Undefined THEN originalError
                       ELSE NewError(message)]

\* handleError that throws the client's error as it came, unwrapped.
handleErrorRethrows(operation, error, fallback) ==
    LET message == Format(operation, error.message)
    IN  [log |-> message,
         kind |-> IF fallback # Undefined THEN "return" ELSE "throw",
         val |-> IF fallback # Undefined THEN fallback ELSE error]

\* cache.ts:219-228  Cache.handleError: the line logged, and either the
\* fallback returned or the CacheError thrown.
handleError(operation, error, fallback) ==
    LET message == Format(operation, error.message)
    IN  [log |-> message,
         kind |-> IF fallback # Undefined THEN "return" ELSE "throw",
         val |-> IF fallback # Undefined THEN fallback
                 ELSE CacheError(operation, message, Undefined)]

\* ------------------------------------------------------ the remote store

\* An entry: the stored text and the seconds left (NoExpiry: it never
\* expires).
NoExpiry == -1

NoEntry == [present |-> FALSE, text |-> <<>>, ttl |-> NoExpiry]

Entry(text, ttl) == [present |-> TRUE, text |-> text, ttl |-> ttl]

\* A bulk reply: nil (JavaScript null) or a string.
Nil == [nil |-> TRUE, text |-> <<>>]

Bulk(text) == [nil |-> FALSE, text |-> text]

\* cache.ts:76  this.redis.get(key)
RedisGet(st, k) == IF st[k].present THEN Bulk(st[k].text) ELSE Nil

\* cache.ts:95  this.redis.set(key, serialized): value and TTL replaced.
RedisSet(st, k, text) == [st EXCEPT ![k] = Entry(text, NoExpiry)]

\* cache.ts:95  this.redis.setex(key, ttl, serialized), ttl > 0.
RedisSetex(st, k, seconds, text) == [st EXCEPT ![k] = Entry(text, seconds)]

\* A delete that takes every key with it.
RedisDelEvery(st, k) == [j \in DOMAIN st |-> NoEntry]

\* cache.ts:140  this.redis.del(key): the number of keys removed.
RedisDelCount(st, k) == IF st[k].present THEN 1 ELSE 0

RedisDel(st, k) == [st EXCEPT ![k] = NoEntry]

\* A flush that spares the entries without expiry.
RedisFlushVolatile(st) ==
    [k \in DOMAIN st |-> IF st[k].ttl = NoExpiry THEN st[k] ELSE NoEntry]

\* cache.ts:153  this.redis.flushall()
RedisFlushall(st) == [k \in DOMAIN st |-> NoEntry]

\* cache.ts:166  this.redis.exists(key)
RedisExists(st, k) == IF st[k].present THEN 1 ELSE 0

\* One second passes at the store: TTLs count down, entries at 0 go.
Expire(st) ==
    [k \in DOMAIN st |->
        IF st[k].present /\ st[k].ttl # NoExpiry
        THEN IF st[k].ttl = 1 THEN NoEntry
             ELSE [st[k] EXCEPT !.ttl = @ - 1]
        ELSE st[k]]

\* ------------------------------------------------------------ the state

VARIABLES
    store,     \* the remote store: key -> entry
    hist,      \* history: the last write, delete or flush applied to each key
    pc,        \* where each caller's call stands
    op,        \* the facade method of the call
    key,       \* its key argument
    value,     \* set: the value argument; remember/forever: what the source yields
    ttl,       \* the ttl argument (Undefined when omitted)
    source,    \* remember/forever: the kind of the callback argument
    cached,    \* remember/forever: const cached
    result,    \* remember/forever: const result
    outcome,   \* how the call ended: returned a value or threw one
    srcCalls,  \* times the call invoked its source function
    log,       \* the console.error lines of the call
    cmds,      \* the client commands the call issued, in order
    seen,      \* history: hist[key] as it stood when the call read the key
    redis,     \* this.redis: the client the facade sends its commands to
    built      \* history: how the facade was built and the clients made for it

vars == <<store, hist, pc, op, key, value, ttl, source, cached, result,
          outcome, srcCalls, log, cmds, seen, redis, built>>

SampleObject == Obj(<< <<(<<"a">>), Num(1)>> >>)

\* The values callers store.
Values == {Str(<<>>), Str(<<"5">>), Null, SampleObject}

\* The ttl arguments callers pass: negative, zero, 1..MaxTTL; set's may
\* be omitted (cache.ts:90 ttl?: number, cache.ts:109 ttl: number).
TTLs == {Num(-1), Num(0)} \cup {Num(n) : n \in 1..MaxTTL}

OptionalTTLs == {Undefined} \cup TTLs

\* The narrower inputs of the callers that race.
RaceValues == {SampleObject, Str(<<"5">>)}

RaceTTLs == {Num(1)}

RaceKinds == {"function"}

\* cache.ts:8  Callback<T> = T | (() => Promise<T> | T): a literal, or a
\* function, whose value resolve awaits whether it is a promise or not.
SourceKinds == {"literal", "function"}

NoHist ==
    [kind |-> "none", value |-> Undefined, ttl |-> NoExpiry, via |-> "none",
     by |-> 0, age |-> 0]

\* What an earlier session's set(OtherKey, SampleObject) left, long ago.
OtherHist ==
    [kind |-> "write", value |-> SampleObject, ttl |-> NoExpiry, via |-> "set",
     by |-> 0, age |-> MaxTTL]

NoOutcome == [kind |-> "none", val |-> Undefined]

OK == Str(<<"O", "K">>)

\* A client: an instance of ioredis' class Redis or of its class Cluster
\* (ioredis 5: both extend Commander, neither extends the other), built
\* from the arguments `from` by the caller or by the facade's own code.
Client(class, from, by) == [t |-> "client", class |-> class, from |-> from, by |-> by]

\* new Redis(...args)
NewRedis(args) == Client("Redis", args, "facade")

\* new Redis.Cluster(nodes, options)
NewCluster(nodes, options) == Client("Cluster", <<Arr(nodes), options>>, "facade")

\* The clients a caller brings to the constructor.
PrebuiltRedis == Client("Redis", <<>>, "caller")

PrebuiltCluster == Client("Cluster", <<>>, "caller")

SampleHost == Str(<<"h">>)

SamplePort == Num(7)

SampleOptions == Obj(<< <<(<<"d", "b">>), Num(1)>> >>)

\* cache.ts:17  RedisConnectionParams, and no argument at all.
ConstructorArgs ==
    {<<>>, <<SamplePort>>, <<SamplePort, SampleHost>>, <<SampleHost>>,
     <<SampleOptions>>, <<PrebuiltRedis>>, <<PrebuiltCluster>>}

\* The node lists and options given to the cluster factory.
SampleNode == Obj(<< <<(<<"p">>), SamplePort>> >>)

ClusterNodes == {<<SampleNode>>, <<SampleNode, SampleNode>>}

ClusterOptions == {Undefined, SampleOptions}

\* cache.ts:50  args[0] instanceof Redis
InstanceOfRedis(args) ==
    /\ args # <<>>
    /\ args[1].t = "client"
    /\ args[1].class = "Redis"

\* cache.ts:48-56  the constructor: this.redis, and the clients it made.
NewCache(args) ==
    IF InstanceOfRedis(args)
    THEN [redis |-> args[1], made |-> <<>>]
    ELSE [redis |-> NewRedis(args), made |-> <<NewRedis(args)>>]

NotBuilt == [via |-> "none", args |-> <<>>, made |-> <<>>]

\* No call issued yet, whatever facade there is.
NoCalls ==
    /\ store = [k \in Keys |->
                  IF k = OtherKey THEN Entry(serialize(SampleObject), NoExpiry)
                  ELSE NoEntry]
    /\ hist = [k \in Keys |-> IF k = OtherKey THEN OtherHist ELSE NoHist]
    /\ pc = [p \in Procs |-> "idle"]
    /\ op = [p \in Procs |-> "none"]
    /\ key = [p \in Procs |-> "none"]
    /\ value = [p \in Procs |-> Undefined]
    /\ ttl = [p \in Procs |-> Undefined]
    /\ source = [p \in Procs |-> "none"]
    /\ cached = [p \in Procs |-> Undefined]
    /\ result = [p \in Procs |-> Undefined]
    /\ outcome = [p \in Procs |-> NoOutcome]
    /\ srcCalls = [p \in Procs |-> 0]
    /\ log = [p \in Procs |-> <<>>]
    /\ cmds = [p \in Procs |-> <<>>]
    /\ seen = [p \in Procs |-> NoHist]

\* The state after `new Cache()`: no call issued yet.
Init ==
    /\ NoCalls
    /\ redis = NewCache(<<>>).redis
    /\ built = [via |-> "new", args |-> <<>>, made |-> NewCache(<<>>).made]

\* --------------------------------------------------- the facade's methods

\* JavaScript truthiness of a reply (cache.ts:77 `data ?`): null and the
\* empty string are falsy.
TruthyData(data) == ~data.nil /\ data.text # <<>>

\* JavaScript truthiness of the ttl argument (cache.ts:95 `ttl ?`):
\* undefined and 0 are falsy.
TruthyTtl(t) == t # Undefined /\ t.n # 0

Success(data) == [ok |-> TRUE, data |-> data, error |-> Undefined]

Failure(e) == [ok |-> FALSE, data |-> Nil, error |-> e]

\* What the client may answer to a command whose reply would be `data`.
Replies(data) == {Success(data)} \cup {Failure(e) : e \in ClientErrors}

\* A client command as issued; err is the error it was rejected with,
\* once answered (Undefined when it succeeded).
Command(c, k, seconds, text) ==
    [cmd |-> c, key |-> k, ttl |-> seconds, text |-> text, err |-> Undefined,
     to |-> redis]

Answered(c, reply) == [c EXCEPT !.err = reply.error]

\* `throw this.handleError(...)`: the statement throws whatever
\* handleError returned, when handleError did not itself throw.
ThrowOf(h) == [kind |-> "throw", val |-> h.val, log |-> <<h.log>>]

\* Cache.get with the catch of set: `throw this.handleError('GET', error)`.
CacheGetFailClosed(reply) ==
    IF reply.ok
    THEN [kind |-> "return",
          val |-> IF TruthyData(reply.data) THEN parse(reply.data.text) ELSE Null,
          log |-> <<>>]
    ELSE ThrowOf(handleError("GET", reply.error, Undefined))

\* Cache.get as `return data && this.parse(data)`: a missing entry is
\* handed back as the falsy reply, not as null.
CacheGetUndefinedWhenAbsent(reply) ==
    IF reply.ok
    THEN [kind |-> "return",
          val |-> IF TruthyData(reply.data) THEN parse(reply.data.text) ELSE Undefined,
          log |-> <<>>]
    ELSE LET h == handleError("GET", reply.error, Null)
         IN  [kind |-> h.kind, val |-> h.val, log |-> <<h.log>>]

\* cache.ts:73-82  Cache.get, given the client's reply to GET.
CacheGet(reply) ==
    IF reply.ok
    THEN [kind |-> "return",
          val |-> IF TruthyData(reply.data) THEN parse(reply.data.text) ELSE Null,
          log |-> <<>>]
    ELSE LET h == handleError("GET", reply.error, Null)
         IN  [kind |-> h.kind, val |-> h.val, log |-> <<h.log>>]

\* cache.ts:93-95  the command Cache.set issues.
SetCommand(k, v, t) ==
    IF TruthyTtl(t) THEN Command("SETEX", k, t.n, serialize(v))
    ELSE Command("SET", k, NoExpiry, serialize(v))

\* What the client may answer to the write c.
WriteReplies(c) ==
    IF c.cmd = "SETEX" /\ c.ttl <= 0
    THEN {Failure(InvalidExpire)} \cup {Failure(e) : e \in ClientErrors}
    ELSE Replies(Bulk(<<"O", "K">>))

\* The writes sent with NX: a key that holds an entry keeps it.
ApplyWriteIfAbsent(st, c) ==
    IF st[c.key].present THEN st
    ELSE IF c.cmd = "SETEX" THEN RedisSetex(st, c.key, c.ttl, c.text)
    ELSE RedisSet(st, c.key, c.text)

\* The writes with the expiry dropped: SETEX applied as SET.
ApplyWriteNoExpiry(st, c) == RedisSet(st, c.key, c.text)

\* The store after the write c.
ApplyWrite(st, c) ==
    IF c.cmd = "SETEX" THEN RedisSetex(st, c.key, c.ttl, c.text)
    ELSE RedisSet(st, c.key, c.text)

\* Cache.set with the catch of get: the error logged, 'OK' returned.
CacheSetFailOpen(reply) ==
    IF reply.ok THEN [kind |-> "return", val |-> Str(reply.data.text), log |-> <<>>]
    ELSE LET h == handleError("SET", reply.error, OK)
         IN  [kind |-> h.kind, val |-> h.val, log |-> <<h.log>>]

\* cache.ts:90-100  Cache.set, given the client's reply to the write.
CacheSet(reply) ==
    IF reply.ok THEN [kind |-> "return", val |-> Str(reply.data.text), log |-> <<>>]
    ELSE ThrowOf(handleError("SET", reply.error, Undefined))

\* Cache.delete as `return (await this.redis.del(key)) > 0`.
CacheDeleteAsBoolean(reply) ==
    IF reply.ok THEN [kind |-> "return", val |-> Bool(reply.data.n > 0), log |-> <<>>]
    ELSE ThrowOf(handleError("DELETE", reply.error, Undefined))

\* cache.ts:138-145  Cache.delete, given the reply (the count) to DEL.
CacheDelete(reply) ==
    IF reply.ok THEN [kind |-> "return", val |-> reply.data, log |-> <<>>]
    ELSE ThrowOf(handleError("DELETE", reply.error, Undefined))

\* cache.ts:151-158  Cache.flush, given the reply to FLUSHALL.
CacheFlush(reply) ==
    IF reply.ok THEN [kind |-> "return", val |-> Str(reply.data.text), log |-> <<>>]
    ELSE ThrowOf(handleError("FLUSH", reply.error, OK))

\* Cache.exists inside the try/catch of delete.
CacheExistsWrapped(reply) ==
    IF reply.ok THEN [kind |-> "return", val |-> Bool(reply.data.n > 0), log |-> <<>>]
    ELSE ThrowOf(handleError("EXISTS", reply.error, Undefined))

\* cache.ts:165-168  Cache.exists, given the reply (the count) to EXISTS:
\* no try/catch, the client's error goes to the caller as it is.
CacheExists(reply) ==
    IF reply.ok THEN [kind |-> "return", val |-> Bool(reply.data.n > 0), log |-> <<>>]
    ELSE [kind |-> "throw", val |-> reply.error, log |-> <<>>]

\* resolve that calls the function a second time to get its value.
resolveTwice(kind, yields) ==
    [val |-> yields, invoked |-> IF kind = "function" THEN 2 ELSE 0]

\* cache.ts:205-210  Cache.resolve: a function is invoked (once) and its
\* value awaited, anything else is the value.
resolve(kind, yields) ==
    [val |-> yields, invoked |-> IF kind = "function" THEN 1 ELSE 0]

\* ---------------------------------------------------------- the actions
\* A call is issued together with its first client command; the calls of
\* the callers interleave at the awaits (cache.ts:76, 95, 113, 140, 153, 166).
\* A caller issues its next call once the last one has ended.

CanCall(p) == redis # Undefined /\ pc[p] \in {"idle", "done"}

\* The call's arguments and fresh locals.
Begin(p, o, k, v, t) ==
    /\ op' = [op EXCEPT ![p] = o]
    /\ key' = [key EXCEPT ![p] = k]
    /\ value' = [value EXCEPT ![p] = v]
    /\ ttl' = [ttl EXCEPT ![p] = t]
    /\ source' = [source EXCEPT ![p] = "none"]
    /\ result' = [result EXCEPT ![p] = Undefined]
    /\ srcCalls' = [srcCalls EXCEPT ![p] = 0]
    /\ UNCHANGED <<redis, built>>

\* The call ends as o says.
End(p, o) ==
    /\ pc' = [pc EXCEPT ![p] = "done"]
    /\ outcome' = [outcome EXCEPT ![p] = [kind |-> o.kind, val |-> o.val]]

\* hist of a key after caller p's method `via` wrote v there with c.
Written(p, via, v, c) ==
    [kind |-> "write", value |-> v, ttl |-> c.ttl, via |-> via, by |-> p, age |-> 0]

Removed(kind) == [NoHist EXCEPT !.kind = kind]

\* The seconds a write's age is counted to: its TTL, MaxTTL without one.
AgeCap(h) == IF h.ttl = NoExpiry THEN MaxTTL ELSE h.ttl

\* A write whose TTL has run out.
Expired(h) == h.kind = "write" /\ h.ttl # NoExpiry /\ h.age >= h.ttl

\* What a call that reads key k notes of hist[k]: the last event, and of
\* its age only whether the TTL had run out.
Seen(h) == IF h.kind = "write" THEN [h EXCEPT !.age = IF Expired(h) THEN h.ttl ELSE 0] ELSE h

\* cache.ts:73-82  get(key)
get(p) ==
    \E reply \in Replies(RedisGet(store, CallKey)) :
        LET o == CacheGet(reply)
        IN  /\ CanCall(p)
            /\ Begin(p, "get", CallKey, Undefined, Undefined)
            /\ cmds' = [cmds EXCEPT ![p] = <<Answered(Command("GET", CallKey, NoExpiry, <<>>), reply)>>]
            /\ seen' = [seen EXCEPT ![p] = Seen(hist[CallKey])]
            /\ cached' = [cached EXCEPT ![p] = Undefined]
            /\ log' = [log EXCEPT ![p] = o.log]
            /\ End(p, o)
            /\ UNCHANGED <<store, hist>>

\* cache.ts:90-100  set(key, value, ttl?)
set(p, Vs, Ts) ==
    \E v \in Vs, t \in Ts :
        LET c == SetCommand(CallKey, v, t)
        IN  \E reply \in WriteReplies(c) :
                LET o == CacheSet(reply)
                IN  /\ CanCall(p)
                    /\ Begin(p, "set", CallKey, v, t)
                    /\ cmds' = [cmds EXCEPT ![p] = <<Answered(c, reply)>>]
                    /\ seen' = [seen EXCEPT ![p] = NoHist]
                    /\ cached' = [cached EXCEPT ![p] = Undefined]
                    /\ log' = [log EXCEPT ![p] = o.log]
                    /\ store' = IF reply.ok THEN ApplyWrite(store, c) ELSE store
                    /\ hist' = IF reply.ok
                               THEN [hist EXCEPT ![CallKey] = Written(p, "set", v, c)]
                               ELSE hist
                    /\ End(p, o)

\* Lookup without `if (cached !== null) return cached`.
LookupThenAlwaysResolve(p, o, k, t) ==
    \E reply \in Replies(RedisGet(store, k)) :
        LET g == CacheGet(reply)
        IN  /\ Begin(p, o, k, Undefined, t)
            /\ cmds' = [cmds EXCEPT ![p] = <<Answered(Command("GET", k, NoExpiry, <<>>), reply)>>]
            /\ seen' = [seen EXCEPT ![p] = Seen(hist[k])]
            /\ log' = [log EXCEPT ![p] = g.log]
            /\ cached' = [cached EXCEPT ![p] = IF g.kind = "return" THEN g.val ELSE Undefined]
            /\ IF g.kind = "throw"
               THEN End(p, g)
               ELSE /\ pc' = [pc EXCEPT ![p] = "resolve"]
                    /\ outcome' = [outcome EXCEPT ![p] = NoOutcome]
            /\ UNCHANGED <<store, hist>>

\* Lookup over a get that lets the failure of the read out.
LookupRaisesOnFailedRead(p, o, k, t) ==
    \E reply \in Replies(RedisGet(store, k)) :
        LET g == IF reply.ok THEN CacheGet(reply)
                 ELSE ThrowOf(handleError("GET", reply.error, Undefined))
        IN  /\ Begin(p, o, k, Undefined, t)
            /\ cmds' = [cmds EXCEPT ![p] = <<Answered(Command("GET", k, NoExpiry, <<>>), reply)>>]
            /\ seen' = [seen EXCEPT ![p] = Seen(hist[k])]
            /\ log' = [log EXCEPT ![p] = g.log]
            /\ cached' = [cached EXCEPT ![p] = IF g.kind = "return" THEN g.val ELSE Undefined]
            /\ IF g.kind = "throw" \/ g.val # Null
               THEN End(p, g)
               ELSE /\ pc' = [pc EXCEPT ![p] = "resolve"]
                    /\ outcome' = [outcome EXCEPT ![p] = NoOutcome]
            /\ UNCHANGED <<store, hist>>

\* cache.ts:110-111 and 125-126: const cached = await this.get(key);
\* if (cached !== null) return cached.
Lookup(p, o, k, t) ==
    \E reply \in Replies(RedisGet(store, k)) :
        LET g == CacheGet(reply)
        IN  /\ Begin(p, o, k, Undefined, t)
            /\ cmds' = [cmds EXCEPT ![p] = <<Answered(Command("GET", k, NoExpiry, <<>>), reply)>>]
            /\ seen' = [seen EXCEPT ![p] = Seen(hist[k])]
            /\ log' = [log EXCEPT ![p] = g.log]
            /\ cached' = [cached EXCEPT ![p] = IF g.kind = "return" THEN g.val ELSE Undefined]
            /\ IF g.kind = "throw" \/ g.val # Null
               THEN End(p, g)
               ELSE /\ pc' = [pc EXCEPT ![p] = "resolve"]
                    /\ outcome' = [outcome EXCEPT ![p] = NoOutcome]
            /\ UNCHANGED <<store, hist>>

\* cache.ts:109-111  remember(key, ttl, callback), to its first return.
remember(p, Ts) ==
    /\ CanCall(p)
    /\ \E t \in Ts : Lookup(p, "remember", CallKey, t)

\* cache.ts:124-126  forever(key, callback), to its first return.
forever(p) ==
    /\ CanCall(p)
    /\ Lookup(p, "forever", CallKey, Undefined)

\* cache.ts:113 and 128  const result = await this.resolve(callback).
\* The callback is looked at here and nowhere before, so what it is and
\* what it yields are drawn here.
resolved(p, Vs, Ks) ==
    /\ pc[p] = "resolve"
    /\ \E kind \in Ks, v \in Vs :
          LET r == resolve(kind, v)
          IN  /\ source' = [source EXCEPT ![p] = kind]
              /\ value' = [value EXCEPT ![p] = v]
              /\ result' = [result EXCEPT ![p] = r.val]
              /\ srcCalls' = [srcCalls EXCEPT ![p] = @ + r.invoked]
    /\ pc' = [pc EXCEPT ![p] = "write"]
    /\ UNCHANGED <<store, hist, op, key, ttl, cached, outcome, log, cmds, seen,
                   redis, built>>

\* cache.ts:114 and 129: the ttl remember passes to set, none for forever.
StoreTtl(o, t) == IF o = "remember" THEN t ELSE Undefined

\* cache.ts:114-115 and 129-130  await this.set(key, result[, ttl]);
\* return result.
stored(p) ==
    /\ pc[p] = "write"
    /\ LET c == SetCommand(key[p], result[p], StoreTtl(op[p], ttl[p]))
       IN  \E reply \in WriteReplies(c) :
               LET o == CacheSet(reply)
               IN  /\ cmds' = [cmds EXCEPT ![p] = Append(@, Answered(c, reply))]
                   /\ log' = [log EXCEPT ![p] = @ \o o.log]
                   /\ store' = IF reply.ok THEN ApplyWrite(store, c) ELSE store
                   /\ hist' = IF reply.ok
                              THEN [hist EXCEPT ![key[p]] = Written(p, op[p], result[p], c)]
                              ELSE hist
                   /\ End(p, IF o.kind = "return" THEN [o EXCEPT !.val = result[p]] ELSE o)
                   /\ UNCHANGED <<op, key, value, ttl, source, cached, result,
                                  srcCalls, seen, redis, built>>

\* cache.ts:138-145  delete(key)
delete(p) ==
    \E reply \in Replies(Num(RedisDelCount(store, CallKey))) :
        LET o == CacheDelete(reply)
        IN  /\ CanCall(p)
            /\ Begin(p, "delete", CallKey, Undefined, Undefined)
            /\ cmds' = [cmds EXCEPT ![p] = <<Answered(Command("DEL", CallKey, NoExpiry, <<>>), reply)>>]
            /\ seen' = [seen EXCEPT ![p] = Seen(hist[CallKey])]
            /\ cached' = [cached EXCEPT ![p] = Undefined]
            /\ log' = [log EXCEPT ![p] = o.log]
            /\ store' = IF reply.ok THEN RedisDel(store, CallKey) ELSE store
            /\ hist' = IF reply.ok THEN [hist EXCEPT ![CallKey] = Removed("del")] ELSE hist
            /\ End(p, o)

\* cache.ts:151-158  flush()
flush(p) ==
    \E reply \in Replies(Bulk(<<"O", "K">>)) :
        LET o == CacheFlush(reply)
        IN  /\ CanCall(p)
            /\ Begin(p, "flush", "none", Undefined, Undefined)
            /\ cmds' = [cmds EXCEPT ![p] = <<Answered(Command("FLUSHALL", "none", NoExpiry, <<>>), reply)>>]
            /\ seen' = [seen EXCEPT ![p] = NoHist]
            /\ cached' = [cached EXCEPT ![p] = Undefined]
            /\ log' = [log EXCEPT ![p] = o.log]
            /\ store' = IF reply.ok THEN RedisFlushall(store) ELSE store
            /\ hist' = IF reply.ok THEN [k \in Keys |-> Removed("flush")] ELSE hist
            /\ End(p, o)

\* cache.ts:165-168  exists(key)
exists(p) ==
    \E reply \in Replies(Num(RedisExists(store, CallKey))) :
        LET o == CacheExists(reply)
        IN  /\ CanCall(p)
            /\ Begin(p, "exists", CallKey, Undefined, Undefined)
            /\ cmds' = [cmds EXCEPT ![p] = <<Answered(Command("EXISTS", CallKey, NoExpiry, <<>>), reply)>>]
            /\ seen' = [seen EXCEPT ![p] = Seen(hist[CallKey])]
            /\ cached' = [cached EXCEPT ![p] = Undefined]
            /\ log' = [log EXCEPT ![p] = o.log]
            /\ End(p, o)
            /\ UNCHANGED <<store, hist>>

Aging(h) == h.kind = "write" /\ h.age < AgeCap(h)

\* One second passes: the store expires what is due.
Tick ==
    /\ \E k \in Keys : Aging(hist[k])
    /\ store' = Expire(store)
    /\ hist' = [k \in Keys |->
                  IF Aging(hist[k]) THEN [hist[k] EXCEPT !.age = @ + 1] ELSE hist[k]]
    /\ UNCHANGED <<pc, op, key, value, ttl, source, cached, result, outcome,
                   srcCalls, log, cmds, seen, redis, built>>

\* One caller, one call after the other, every input.
Next ==
    \/ get(1)
    \/ set(1, Values, OptionalTTLs)
    \/ remember(1, TTLs)
    \/ forever(1)
    \/ resolved(1, Values, SourceKinds)
    \/ stored(1)
    \/ delete(1)
    \/ flush(1)
    \/ exists(1)
    \/ Tick

Spec == Init /\ [][Next]_vars

\* A caller's only call: a set, a remember or a forever on the narrower
\* inputs.
setOnce(p) == pc[p] = "idle" /\ set(p, RaceValues, RaceTTLs)

rememberOnce(p) == pc[p] = "idle" /\ remember(p, RaceTTLs)

foreverOnce(p) == pc[p] = "idle" /\ forever(p)

\* Two callers, one call each, whose steps interleave within one second.
NextRace ==
    \E p \in Procs :
        \/ setOnce(p)
        \/ rememberOnce(p)
        \/ foreverOnce(p)
        \/ resolved(p, RaceValues, RaceKinds)
        \/ stored(p)

SpecRace == Init /\ [][NextRace]_vars

\* cache.ts:48-56  new Cache(...args)
constructor(As) ==
    /\ built = NotBuilt
    /\ \E args \in As :
          /\ redis' = NewCache(args).redis
          /\ built' = [via |-> "new", args |-> args, made |-> NewCache(args).made]
    /\ UNCHANGED <<store, hist, pc, op, key, value, ttl, source, cached, result,
                   outcome, srcCalls, log, cmds, seen>>

\* cache.ts:63-66  Cache.Cluster(nodes, options): the cluster client is
\* built and handed to the constructor.
Cluster(Ns, Os) ==
    /\ built = NotBuilt
    /\ \E nodes \in Ns, options \in Os :
          LET cluster == NewCluster(nodes, options)
              cache == NewCache(<<cluster>>)
          IN  /\ redis' = cache.redis
              /\ built' = [via |-> "Cluster", args |-> <<cluster>>,
                           made |-> <<cluster>> \o cache.made]
    /\ UNCHANGED <<store, hist, pc, op, key, value, ttl, source, cached, result,
                   outcome, srcCalls, log, cmds, seen>>

\* cache.ts:267-269  client()
client(p) ==
    /\ CanCall(p)
    /\ Begin(p, "client", "none", Undefined, Undefined)
    /\ cmds' = [cmds EXCEPT ![p] = <<>>]
    /\ seen' = [seen EXCEPT ![p] = NoHist]
    /\ cached' = [cached EXCEPT ![p] = Undefined]
    /\ log' = [log EXCEPT ![p] = <<>>]
    /\ End(p, [kind |-> "return", val |-> redis])
    /\ UNCHANGED <<store, hist>>

\* Before the facade is built.
InitBuild ==
    /\ NoCalls
    /\ redis = Undefined
    /\ built = NotBuilt

\* A facade is built, by the constructor or by the factory, and one
\* caller then uses it.
NextBuild ==
    \/ constructor(ConstructorArgs)
    \/ Cluster(ClusterNodes, ClusterOptions)
    \/ client(1)
    \/ get(1)
    \/ set(1, RaceValues, RaceTTLs)
    \/ exists(1)

SpecBuild == InitBuild /\ [][NextBuild]_vars

\* ------------------------------------------------------------ the claims

\* The call's first command, its read, was rejected by the client.
ReadFailed(p) == cmds[p] # <<>> /\ cmds[p][1].err # Undefined

\* The call read its key, the client answered, and the last event on the
\* key was a write by method `via` whose TTL (if any) had not run out.
ReadAfterWrite(p, via) ==
    /\ pc[p] # "idle"
    /\ ~ReadFailed(p)
    /\ seen[p].kind = "write"
    /\ seen[p].via = via
    /\ ~Expired(seen[p])

\* The call read its key, the client answered, and the store held no
\* entry for the key.
ReadAbsent(p) ==
    /\ pc[p] # "idle"
    /\ ~ReadFailed(p)
    /\ seen[p].kind # "write" \/ Expired(seen[p])

\* The remember/forever call of p ended after a miss and a write the
\* client accepted.
MissedAndWrote(p) ==
    /\ op[p] \in {"remember", "forever"}
    /\ pc[p] = "done"
    /\ Len(cmds[p]) = 2
    /\ cmds[p][2].err = Undefined

\* C1: a get(k) that follows set(k, v, t), t > 0, with no other operation
\* on k in between and no client failure, returns a value equal to v.
C1_RoundTrip ==
    \A p \in Procs :
        (op[p] = "get" /\ ReadAfterWrite(p, "set") /\ seen[p].ttl > 0)
            => outcome[p] = [kind |-> "return", val |-> seen[p].value]

\* C2: remember on an absent key, the client failing nowhere, invokes a
\* function source exactly once and returns what the source yields; and a
\* get(k) right after it returns that value.
C2_RememberAbsentThenGet ==
    \A p \in Procs :
        /\ (op[p] = "remember" /\ ReadAbsent(p) /\ MissedAndWrote(p))
              => /\ outcome[p] = [kind |-> "return", val |-> value[p]]
                 /\ srcCalls[p] = IF source[p] = "function" THEN 1 ELSE 0
        /\ (op[p] = "get" /\ ReadAfterWrite(p, "remember"))
              => outcome[p] = [kind |-> "return", val |-> seen[p].value]

\* C3: a remember call that starts after a remember call on the same key
\* wrote and returned, the TTL not elapsed and nothing else done to the key
\* in between, invokes no source: it never comes to resolve one.
C3_SecondRememberSkipsSource ==
    \A p \in Procs :
        (op[p] = "remember" /\ ReadAfterWrite(p, "remember"))
            => (pc[p] # "resolve" /\ srcCalls[p] = 0)

\* The get of p's remember/forever call returned a value that is not null.
Hit(p) ==
    /\ op[p] \in {"remember", "forever"}
    /\ pc[p] # "idle"
    /\ cached[p] \notin {Undefined, Null}

\* C4: when the get of remember/forever returns a non-absent value, the
\* call returns exactly that value, invokes no source and issues no write:
\* its only command is the GET, and the step leaves the store as it was.
C4_HitPath ==
    /\ [](\A p \in Procs :
            Hit(p) => /\ pc[p] = "done"
                      /\ outcome[p] = [kind |-> "return", val |-> cached[p]]
                      /\ srcCalls[p] = 0
                      /\ Len(cmds[p]) = 1
                      /\ cmds[p][1].cmd = "GET")
    /\ [][\A p \in Procs :
            (Hit(p)' /\ <<pc[p], cmds[p]>> # <<pc[p], cmds[p]>>') => store' = store]_vars

\* A hit on an entry whose TTL has partly run: the value returned, one
\* second left as before.
C4_Witness ==
    \E p \in Procs :
        /\ Hit(p)
        /\ op[p] = "remember"
        /\ pc[p] = "done"
        /\ outcome[p].val = SampleObject
        /\ store[CallKey] = Entry(serialize(SampleObject), 1)
        /\ hist[CallKey].ttl = MaxTTL

\* Both callers' remember/forever calls read the key absent and wrote.
BothMissed(p, q) ==
    /\ p # q
    /\ key[p] = key[q]
    /\ MissedAndWrote(p) /\ ReadAbsent(p)
    /\ MissedAndWrote(q) /\ ReadAbsent(q)

\* C5: when two concurrent remember/forever calls on one absent key both
\* read absent, both invoke their source and both write; then each returns
\* its own source's value and the store holds the text of the write
\* applied last.
C5_NoSingleFlight ==
    \A p, q \in Procs :
        BothMissed(p, q)
            => /\ srcCalls[p] = 1
               /\ outcome[p] = [kind |-> "return", val |-> value[p]]
               /\ hist[key[p]].by \in {p, q}
               /\ store[key[p]].present
               /\ store[key[p]].text = serialize(value[hist[key[p]].by])

\* Both missed, the sources yielded different values, and the store holds
\* the second writer's while the first returned its own.
C5_Witness ==
    \E p, q \in Procs :
        /\ BothMissed(p, q)
        /\ value[p] # value[q]
        /\ hist[key[p]].by = q
        /\ store[key[p]].text = serialize(value[q])
        /\ outcome[p].val = value[p]

\* C6: a write issued by remember/forever, whose own read the client
\* answered, is applied only when the store holds no entry for the key at
\* the moment of the write.
C6_StoresOnlyIfAbsent ==
    [][\A p \in Procs :
          (pc[p] = "write" /\ pc'[p] = "done" /\ ~ReadFailed(p) /\ store' # store)
              => ~store[key[p]].present]_vars

\* C7: when FLUSHALL fails, flush() returns 'OK' and does not raise.
C7_FlushFailOpen ==
    \A p \in Procs :
        (op[p] = "flush" /\ pc[p] = "done" /\ cmds[p][1].err # Undefined)
            => outcome[p] = [kind |-> "return", val |-> OK]

\* C8: when the read fails, get(k) does not raise: it returns null and
\* logs one line naming GET and the client's message.
C8_GetFailOpen ==
    \A p \in Procs :
        (op[p] = "get" /\ pc[p] = "done" /\ ReadFailed(p))
            => /\ outcome[p] = [kind |-> "return", val |-> Null]
               /\ log[p] = << <<"Cache ", "GET", " operation failed: ">>
                                \o cmds[p][1].err.message >>

\* A failed get on a key that holds an entry: null all the same.
C8_Witness ==
    \E p \in Procs :
        /\ op[p] = "get" /\ pc[p] = "done" /\ ReadFailed(p)
        /\ store[CallKey].present
        /\ outcome[p].val = Null
        /\ Len(log[p]) = 1

\* The name set and delete pass to handleError.
OperationOf(o) == IF o = "set" THEN "SET" ELSE "DELETE"

\* C9: when the write or the delete command fails, set and delete return
\* nothing: they throw a CacheError whose operation is SET, DELETE.
C9_WritesFailClosed ==
    \A p \in Procs :
        (op[p] \in {"set", "delete"} /\ pc[p] = "done" /\ cmds[p][1].err # Undefined)
            => /\ outcome[p].kind = "throw"
               /\ outcome[p].val.t = "CacheError"
               /\ outcome[p].val.operation = OperationOf(op[p])

\* A set the connection failed under: a CacheError of SET, nothing stored.
C9_Witness ==
    \E p \in Procs :
        /\ op[p] = "set" /\ pc[p] = "done"
        /\ cmds[p][1].err = ConnectionLost
        /\ outcome[p].kind = "throw"
        /\ outcome[p].val.operation = "SET"
        /\ ~store[CallKey].present

\* C10: a CacheError a call throws carries, as its original error, the
\* very error the client rejected the command with.
C10_OriginalErrorKept ==
    \A p \in Procs :
        (pc[p] = "done" /\ outcome[p].kind = "throw" /\ outcome[p].val.t = "CacheError")
            => outcome[p].val.originalError = cmds[p][Len(cmds[p])].err

\* What get(k) would return on the store st, the client answering.
GetWouldReturn(st, k) == CacheGet(Success(RedisGet(st, k))).val

\* C11: exists(k) returns true if and only if a get(k) at that instant
\* would return a non-absent value, whatever text the entry holds.
C11_ExistsIffGetPresent ==
    [][\A p \in Procs :
          (/\ op'[p] = "exists" /\ pc'[p] = "done"
           /\ outcome'[p].kind = "return"
           /\ <<store, hist>>' = <<store, hist>>)
              => outcome'[p].val = Bool(GetWouldReturn(store, key'[p]) # Null)]_vars

\* C12: after forever(k, source) returns, the entry under k has no expiry,
\* whatever k held before the call.
C12_ForeverNoExpiry ==
    \A p \in Procs :
        (op[p] = "forever" /\ pc[p] = "done" /\ outcome[p].kind = "return")
            => (store[key[p]].present /\ store[key[p]].ttl = NoExpiry)

\* C13: once at least t seconds have passed since a set or a remember
\* wrote k with TTL t > 0, and k was not written again, get(k) returns
\* absent.
C13_TtlExpiry ==
    \A p \in Procs :
        (/\ op[p] = "get" /\ pc[p] = "done"
         /\ seen[p].kind = "write" /\ seen[p].via \in {"set", "remember"}
         /\ seen[p].ttl > 0 /\ Expired(seen[p]))
            => outcome[p] = [kind |-> "return", val |-> Null]

\* A get that the client answered, MaxTTL seconds after a set with TTL
\* MaxTTL stored an object: absent.
C13_Witness ==
    \E p \in Procs :
        /\ op[p] = "get" /\ pc[p] = "done" /\ ~ReadFailed(p)
        /\ seen[p].kind = "write" /\ seen[p].via = "set"
        /\ seen[p].value = SampleObject
        /\ seen[p].ttl = MaxTTL /\ Expired(seen[p])
        /\ hist[CallKey].age = MaxTTL
        /\ outcome[p].val = Null

\* C14: after a set(k, v) without TTL, a get(k) returns v after any amount
\* of time, whatever k held before, until k is deleted, flushed or written
\* again.
C14_NoTtlNeverExpires ==
    \A p \in Procs :
        (/\ op[p] = "get" /\ pc[p] = "done" /\ ~ReadFailed(p)
         /\ seen[p].kind = "write" /\ seen[p].via = "set"
         /\ seen[p].ttl = NoExpiry)
            => outcome[p] = [kind |-> "return", val |-> seen[p].value]

\* The write command of a set, or of a remember that came to write.
WriteOf(p) == cmds[p][Len(cmds[p])]

\* C15: a set or a remember given a ttl argument, zero and negative ones
\* too, issues SETEX with exactly that ttl; set issues a plain SET only
\* when the argument is omitted.
C15_WriteCommandChoice ==
    \A p \in Procs :
        (/\ pc[p] = "done"
         /\ \/ op[p] = "set"
            \/ op[p] = "remember" /\ Len(cmds[p]) = 2)
            => IF ttl[p] = Undefined
               THEN WriteOf(p).cmd = "SET"
               ELSE WriteOf(p).cmd = "SETEX" /\ WriteOf(p).ttl = ttl[p].n

\* C16: delete(k) returns 1 if k held an unexpired entry and 0 otherwise,
\* k holds no entry afterwards, and a get(k) that follows returns absent.
C16_DeleteCount ==
    \A p \in Procs :
        /\ (op[p] = "delete" /\ pc[p] = "done" /\ ~ReadFailed(p))
              => /\ outcome[p] =
                       [kind |-> "return",
                        val |-> Num(IF seen[p].kind = "write" /\ ~Expired(seen[p])
                                    THEN 1 ELSE 0)]
                 /\ ~store[key[p]].present
        /\ (op[p] = "get" /\ pc[p] = "done" /\ seen[p].kind = "del")
              => outcome[p] = [kind |-> "return", val |-> Null]

\* A delete of an entry a remember wrote with a TTL that had not run out.
C16_Witness ==
    \E p \in Procs :
        /\ op[p] = "delete" /\ pc[p] = "done"
        /\ seen[p].kind = "write" /\ seen[p].via = "remember" /\ seen[p].ttl > 0
        /\ outcome[p].val = Num(1)
        /\ hist[CallKey].kind = "del"
        /\ ~store[CallKey].present

\* C17: after a flush() that returned 'OK' no key holds an entry, and a
\* get(k) returns absent until k is written again.
C17_FlushClears ==
    \A p \in Procs :
        /\ (op[p] = "flush" /\ pc[p] = "done" /\ outcome[p] = [kind |-> "return", val |-> OK])
              => \A k \in Keys : ~store[k].present
        /\ (op[p] = "get" /\ pc[p] = "done" /\ seen[p].kind = "flush")
              => outcome[p] = [kind |-> "return", val |-> Null]

\* A get after a flush: absent, and the entry of the other key, which had
\* no expiry, is gone too.
C17_Witness ==
    \E p \in Procs :
        /\ op[p] = "get" /\ pc[p] = "done" /\ ~ReadFailed(p)
        /\ seen[p].kind = "flush"
        /\ hist[OtherKey].kind = "flush"
        /\ ~store[OtherKey].present
        /\ outcome[p].val = Null

\* C18: a get(k) on a key that holds no entry (never set, deleted,
\* flushed or expired) returns null and does not raise.
C18_GetAbsent ==
    \A p \in Procs :
        (/\ op[p] = "get" /\ pc[p] = "done" /\ ~ReadFailed(p)
         /\ seen[p].kind # "write" \/ Expired(seen[p]))
            => outcome[p] = [kind |-> "return", val |-> Null]

\* A get on the key never set.
C18_Witness ==
    \E p \in Procs :
        /\ op[p] = "get" /\ pc[p] = "done" /\ ~ReadFailed(p)
        /\ seen[p].kind = "none"
        /\ outcome[p] = [kind |-> "return", val |-> Null]

\* C19: when EXISTS fails, exists(k) throws the client's own error as it
\* is, not a CacheError, and logs nothing.
C19_ExistsPropagates ==
    \A p \in Procs :
        (op[p] = "exists" /\ pc[p] = "done" /\ ReadFailed(p))
            => /\ outcome[p] = [kind |-> "throw", val |-> cmds[p][1].err]
               /\ outcome[p].val.origin = "client"
               /\ log[p] = <<>>

\* A failed exists on a key that holds an entry.
C19_Witness ==
    \E p \in Procs :
        /\ op[p] = "exists" /\ pc[p] = "done"
        /\ cmds[p][1].err = ConnectionLost
        /\ store[CallKey].present
        /\ outcome[p].val = ConnectionLost

\* The facade was given the pre-built client c: to the constructor, or
\* by the factory, which built c itself.
GivenClient(c) ==
    /\ built.via # "none"
    /\ built.args # <<>>
    /\ built.args[1] = c

\* C20: a facade given a pre-built client c, single-node or cluster,
\* creates no client of its own and has c as its client(); the facade of
\* Cache.Cluster has the cluster client the factory built, and sends all
\* its commands there.
C20_PrebuiltClientKept ==
    \A c \in {PrebuiltRedis, PrebuiltCluster}
             \cup {NewCluster(n, o) : n \in ClusterNodes, o \in ClusterOptions} :
        GivenClient(c)
            => /\ redis = c
               /\ built.made = (IF built.via = "Cluster" THEN <<c>> ELSE <<>>)
               /\ \A p \in Procs :
                     /\ (op[p] = "client" /\ pc[p] = "done")
                           => outcome[p] = [kind |-> "return", val |-> c]
                     /\ \A i \in DOMAIN cmds[p] : cmds[p][i].to = c

\* The name the facade passes to handleError for the client command c.
OperationNamed(c) ==
    CASE c.cmd = "GET" -> "GET"
      [] c.cmd \in {"SET", "SETEX"} -> "SET"
      [] c.cmd = "DEL" -> "DELETE"
      [] c.cmd = "FLUSHALL" -> "FLUSH"
      [] OTHER -> c.cmd

\* The last command of p's call failed, inside a try/catch of the facade.
LastFailed(p) ==
    /\ pc[p] = "done"
    /\ cmds[p] # <<>>
    /\ WriteOf(p).err # Undefined
    /\ WriteOf(p).cmd # "EXISTS"

\* "Cache OP operation failed: m" for the call's last command.
FailureText(p) ==
    <<"Cache ", OperationNamed(WriteOf(p)), " operation failed: ">>
        \o WriteOf(p).err.message

\* C21: for a failed operation OP with underlying message m, the line
\* logged and the message of the CacheError thrown are both exactly
\* "Cache OP operation failed: m".
C21_MessageFormat ==
    \A p \in Procs :
        LastFailed(p)
            => /\ log[p] # <<>>
               /\ log[p][Len(log[p])] = FailureText(p)
               /\ (outcome[p].kind = "throw" /\ outcome[p].val.t = "CacheError")
                     => outcome[p].val.message = FailureText(p)

\* p's remember/forever call, whose read the client rejected.
MissByFailure(p) ==
    /\ op[p] \in {"remember", "forever"}
    /\ pc[p] # "idle"
    /\ ReadFailed(p)

\* C22: when the read of remember/forever fails the call does not raise
\* there: it goes on as on a miss, resolves its source once and issues one
\* write of the value, which replaces whatever entry the store holds.
C22_FailedReadIsMiss ==
    /\ [](\A p \in Procs :
            MissByFailure(p)
               => /\ cached[p] = Null
                  /\ pc[p] \in {"resolve", "write", "done"}
                  /\ pc[p] # "done" => outcome[p] = NoOutcome
                  /\ pc[p] # "resolve"
                        => srcCalls[p] = IF source[p] = "function" THEN 1 ELSE 0
                  /\ pc[p] = "done"
                        => /\ Len(cmds[p]) = 2
                           /\ WriteOf(p).cmd \in {"SET", "SETEX"}
                           /\ WriteOf(p).key = key[p]
                           /\ WriteOf(p).text = serialize(result[p])
                           /\ WriteOf(p).err = Undefined
                                 => outcome[p] = [kind |-> "return", val |-> result[p]])
    /\ [][\A p \in Procs :
            (/\ MissByFailure(p) /\ pc[p] = "write" /\ pc'[p] = "done"
             /\ cmds'[p][2].err = Undefined)
                => store'[key[p]].text = serialize(result[p])
                   /\ store'[key[p]].present]_vars

\* The read failed while the key held an object; the source's "5" was
\* written over it and returned.
C22_Witness ==
    \E p \in Procs :
        /\ MissByFailure(p) /\ op[p] = "remember" /\ pc[p] = "done"
        /\ seen[p].kind = "write" /\ ~Expired(seen[p])
        /\ seen[p].value = SampleObject
        /\ source[p] = "function" /\ srcCalls[p] = 1
        /\ result[p] = Str(<<"5">>)
        /\ outcome[p] = [kind |-> "return", val |-> result[p]]
        /\ store[CallKey].present /\ store[CallKey].text = <<"5">>

\* p's remember/forever call ended with its write rejected.
WriteFailed(p) ==
    /\ op[p] \in {"remember", "forever"}
    /\ pc[p] = "done"
    /\ Len(cmds[p]) = 2
    /\ cmds[p][2].err # Undefined

\* C23: when the write of remember/forever fails, the call throws the
\* CacheError of SET and returns no value, its source having been invoked
\* once; the failed write leaves the store as it was.
C23_FailedWriteRaises ==
    /\ [](\A p \in Procs :
            WriteFailed(p)
               => /\ outcome[p].kind = "throw"
                  /\ outcome[p].val.t = "CacheError"
                  /\ outcome[p].val.operation = "SET"
                  /\ srcCalls[p] = IF source[p] = "function" THEN 1 ELSE 0)
    /\ [][\A p \in Procs :
            (pc[p] = "write" /\ WriteFailed(p)') => store' = store]_vars

\* The connection failed under the write of a forever call whose source
\* function had run; the key still holds nothing.
C23_Witness ==
    \E p \in Procs :
        /\ WriteFailed(p) /\ op[p] = "forever"
        /\ cmds[p][2].err = ConnectionLost
        /\ source[p] = "function" /\ srcCalls[p] = 1
        /\ result[p] = SampleObject
        /\ outcome[p].kind = "throw"
        /\ ~store[CallKey].present

\* The one command of the methods that issue one.
OnlyCommand(o) ==
    CASE o = "get" -> {"GET"}
      [] o = "set" -> {"SET", "SETEX"}
      [] o = "delete" -> {"DEL"}
      [] o = "flush" -> {"FLUSHALL"}
      [] o = "exists" -> {"EXISTS"}
      [] OTHER -> {}

\* C24: no command is issued twice and none is retried: get, set, delete,
\* flush and exists issue one command; remember/forever issue the read,
\* then on a miss resolve the source once, then issue one write, and
\* return only when the write is answered.
C24_OrderNoRetry ==
    \A p \in Procs :
        /\ (pc[p] = "done" /\ op[p] \in {"get", "set", "delete", "flush", "exists"})
              => (Len(cmds[p]) = 1 /\ cmds[p][1].cmd \in OnlyCommand(op[p]))
        /\ (pc[p] # "idle" /\ op[p] \in {"remember", "forever"})
              => /\ cmds[p][1].cmd = "GET"
                 /\ srcCalls[p] <= 1
                 /\ pc[p] = "resolve" => (Len(cmds[p]) = 1 /\ srcCalls[p] = 0)
                 /\ pc[p] = "write" => (Len(cmds[p]) = 1 /\ result[p] # Undefined)
                 /\ pc[p] # "done" => outcome[p] = NoOutcome
                 /\ pc[p] = "done"
                       => /\ Len(cmds[p]) = (IF cached[p] = Null THEN 2 ELSE 1)
                          /\ Len(cmds[p]) = 2
                                => /\ cmds[p][2].cmd \in {"SET", "SETEX"}
                                   /\ result[p] # Undefined
                                   /\ outcome[p].kind # "none"

\* A remember whose write the client rejected: two commands, no third.
C24_Witness ==
    \E p \in Procs :
        /\ op[p] = "remember" /\ pc[p] = "done"
        /\ Len(cmds[p]) = 2
        /\ cmds[p][1].err = Undefined
        /\ cmds[p][2].cmd = "SETEX" /\ cmds[p][2].err = ConnectionLost
        /\ srcCalls[p] = 1

\* A second passes and no call moves.
TimePasses ==
    /\ store' = Expire(store)
    /\ UNCHANGED <<pc, op, key, cmds, outcome>>

\* C25: get and exists leave the whole store as it is; set, delete,
\* remember and forever leave every key but their own as it is; of the
\* facade's methods only flush changes other keys.
C25_Frame ==
    [][(store' # store /\ ~TimePasses)
          => \E p \in Procs :
                /\ pc'[p] = "done"
                /\ \/ op'[p] = "flush"
                   \/ /\ op'[p] \in {"set", "delete", "remember", "forever"}
                      /\ \A k \in Keys \ {key'[p]} : store'[k] = store[k]]_vars

\* A delete removed the entry of its key; the other key's entry stands.
C25_Witness ==
    \E p \in Procs :
        /\ op[p] = "delete" /\ pc[p] = "done"
        /\ outcome[p] = [kind |-> "return", val |-> Num(1)]
        /\ seen[p].kind = "write" /\ seen[p].via = "forever"
        /\ ~store[CallKey].present
        /\ store[OtherKey] = Entry(serialize(SampleObject), NoExpiry)

====
